---- MODULE Spec2Model ----
(***************************************************************************)
(* Model of src/index.ts: a script that reruns one GitHub Actions workflow *)
(* run a configured number of times, polls every new attempt until it has  *)
(* completed, counts successes and failures and downloads the artifacts of *)
(* failed attempts.                                                        *)
(*                                                                         *)
(* The script is one async function, main, plus the module's top-level     *)
(* statements.  pc names the operation main is suspended on (the promise   *)
(* it awaits); every action is the settling of that promise followed by    *)
(* the code that runs until the next await.  downloadArtifactsForFailed-   *)
(* Attempt is a task of its own (position rpc) that main awaits.  The      *)
(* remote provider, the terminal and the timers are the environment.       *)
(***************************************************************************)
EXTENDS Integers, Sequences, FiniteSets, TLC

(***************************************************************************)
(* Bounds of the model.                                                    *)
(***************************************************************************)
\* Iterations of the loop of main that the model follows.
MaxIterations == 2
\* The run has 1..MaxInitialAttempt attempts when the script starts.
MaxInitialAttempt == 2
\* The remote lists 0..MaxArtifacts artifacts for a run.
MaxArtifacts == 2
\* Reruns of the same run that somebody else triggers while the script runs.
MaxExternalReruns == 1

(***************************************************************************)
(* Program constants.                                                      *)
(***************************************************************************)
\* sleep(10000) after the rerun request.
GraceMs == 10000
\* Poll frequency when the answer is empty.
DefaultPollFrequencyMs == 10000
\* Attempt count when the answer is empty.
DefaultNumberOfAttempts == 100
\* The answer to the poll frequency prompt is in seconds.
MsPerSecond == 1000
\* process.exit(1) in the handler of main's rejection.
FatalExitCode == 1
\* The exit code of a process that ends with nothing left to run.
NormalExitCode == 0

(***************************************************************************)
(* Text.  A line of text is a sequence of one-character strings.  The      *)
(* empty sequence is the empty string; an environment variable that is not *)
(* set is modelled by it too, since the code only tests truthiness.        *)
(***************************************************************************)
Digits == {"0", "1", "2", "3", "4", "5", "6", "7", "8", "9"}

DigitValue(c) ==
    CASE c = "0" -> 0 [] c = "1" -> 1 [] c = "2" -> 2 [] c = "3" -> 3
      [] c = "4" -> 4 [] c = "5" -> 5 [] c = "6" -> 6 [] c = "7" -> 7
      [] c = "8" -> 8 [] c = "9" -> 9

\* The number NaN: no text of the model parses to a negative number.
NaN == -1

RECURSIVE ParseDigits(_, _, _)
ParseDigits(s, i, acc) ==
    IF i > Len(s) \/ s[i] \notin Digits
    THEN acc
    ELSE ParseDigits(s, i + 1, acc * 10 + DigitValue(s[i]))

\* parseInt(s) for texts without sign or leading blanks: the value of the
\* longest prefix of digits, NaN when there is none.
ParseInt(s) ==
    IF s = <<>> \/ s[1] \notin Digits THEN NaN ELSE ParseDigits(s, 1, 0)

\* A variant that leaves the factor out.
TimesFirstOnly(a, b) == a

\* a * b in JavaScript numbers.
Times(a, b) == IF a = NaN \/ b = NaN THEN NaN ELSE a * b

\* !s for a string (or an unset environment variable).
Falsy(s) == s = <<>>

(***************************************************************************)
(* Inputs: what the environment variables may hold and what the user may   *)
(* answer.                                                                 *)
(***************************************************************************)
TokenValues == {<<>>, <<"t">>}
RunIdEnvValues == {<<>>, <<"4", "2">>}
RunIdAnswers == {<<>>, <<"4", "2">>}
PollFrequencyEnvValues == {<<>>, <<"5", "0", "0", "0">>}
PollFrequencyAnswers == {<<>>, <<"5">>}
NumberOfAttemptsEnvValues == {<<>>, <<"0">>, <<"1">>, <<"2">>}
NumberOfAttemptsAnswers == {<<>>, <<"1">>, <<"x">>}
RepoEnvValues == {<<>>, <<"r">>}
RepoAnswers == {<<>>, <<"r">>}
RepoOwnerEnvValues == {<<>>, <<"o">>}
RepoOwnerAnswers == {<<>>, <<"o">>}

Conclusions == {"success", "failure", "cancelled"}

VARIABLES
    \* the process
    pc,                  \* what main is suspended on
    rlOpen,              \* the readline interface rl is open
    exited,              \* the process has ended
    exitCode,            \* its exit code, once exited
    answer,              \* the last line read from the terminal, while the
                         \* configuration is being read
    envValue,            \* the environment variable's value that the resolver
                         \* of the configuration running now has read
    \* locals of main
    RUN_ID, POLL_FREQUENCY_MS, NUMBER_OF_ATTEMPTS, REPO_NAME, REPO_OWNER,
    successes, failures, iteration,
    initialRun,          \* what getRun returned: "absent" for undefined
    initialAttemptCount, expectedAttemptCount,
    finishedAttempt,
    \* sleepUntilAttemptCompleted
    attemptNumber,       \* its parameter: the attempt main asks the remote for
    attempt,             \* the attempt its last fetch returned
    sleptMs,             \* the argument of the last sleep
    \* downloadArtifactsForFailedAttempt
    rpc,                 \* what the retriever is suspended on
    rAttemptNumber,      \* its parameter attemptNumber
    rArtifacts,          \* the artifacts it has still to download
    dirs, files,         \* what it created on the file system
    \* what the process has done so far
    reruns,              \* rerun requests issued
    tallies,             \* "Results as of iteration" lines logged
    anomalies,           \* "Unknown conclusion" lines logged
    totalsLogged,        \* the final "Successes: , Failures: " line is logged
    errors,              \* errors raised: by a request, by the file system, by a throw
    fatalErrors,         \* errors logged by the handler of main's rejection
    \* the remote provider
    attempts,            \* the attempts of the run, by attempt number
    creating,            \* who triggered the accepted rerun whose attempt is not registered yet
    externalReruns       \* reruns triggered by somebody else

procVars == <<pc, rlOpen, exited, exitCode, answer, envValue>>
cfgVars == <<RUN_ID, POLL_FREQUENCY_MS, NUMBER_OF_ATTEMPTS, REPO_NAME, REPO_OWNER>>
loopVars == <<successes, failures, iteration, initialRun, initialAttemptCount,
              expectedAttemptCount, finishedAttempt>>
pollVars == <<attemptNumber, attempt, sleptMs>>
retrVars == <<rpc, rAttemptNumber, rArtifacts, dirs, files>>
histVars == <<reruns, tallies, anomalies, totalsLogged, errors, fatalErrors>>
remoteVars == <<attempts, creating, externalReruns>>

vars == <<procVars, cfgVars, loopVars, pollVars, retrVars, histVars, remoteVars>>

NoAttempt == [status |-> "none", conclusion |-> "null", actor |-> "none"]


(***************************************************************************)
(* The state when the process starts: nothing of the module has run.  The  *)
(* run exists on the remote with its earlier attempts, all completed.      *)
(***************************************************************************)
Init ==
    /\ pc = "load"
    /\ rlOpen = FALSE
    /\ exited = FALSE
    /\ exitCode = NormalExitCode
    /\ answer = <<>>
    /\ envValue = <<>>
    /\ RUN_ID = 0
    /\ POLL_FREQUENCY_MS = 0
    /\ NUMBER_OF_ATTEMPTS = 0
    /\ REPO_NAME = <<>>
    /\ REPO_OWNER = <<>>
    /\ successes = 0
    /\ failures = 0
    /\ iteration = 0
    /\ initialRun = "unset"
    /\ initialAttemptCount = 0
    /\ expectedAttemptCount = 0
    /\ finishedAttempt = NoAttempt
    /\ attemptNumber = 0
    /\ attempt = NoAttempt
    /\ sleptMs = 0
    /\ rpc = "idle"
    /\ rAttemptNumber = 0
    /\ rArtifacts = <<>>
    /\ dirs = {}
    /\ files = {}
    /\ reruns = 0
    /\ tallies = 0
    /\ anomalies = 0
    /\ totalsLogged = FALSE
    /\ errors = 0
    /\ fatalErrors = 0
    /\ \E k \in 1..MaxInitialAttempt :
          attempts = [a \in 1..k |-> [status |-> "completed", conclusion |-> "failure",
                                       actor |-> "initial"]]
    /\ creating = "none"
    /\ externalReruns = 0

(***************************************************************************)
(* How the process ends.                                                   *)
(***************************************************************************)
\* A variant of the handler that logs the error and does not end the process.
FatalLogsOnly ==
    /\ pc' = "rejected"
    /\ fatalErrors' = fatalErrors + 1
    /\ UNCHANGED <<exited, exitCode>>

\* An error is raised inside main, which has no handler of its own: main's
\* promise is rejected and main().catch((e) => { console.error(e);
\* process.exit(1); }) runs.
Fatal ==
    /\ pc' = "rejected"
    /\ fatalErrors' = fatalErrors + 1
    /\ exited' = TRUE
    /\ exitCode' = FatalExitCode

\* An error thrown by a top-level statement of the module is uncaught: node
\* prints it and ends the process with code 1.
Uncaught ==
    /\ pc' = "thrown"
    /\ exited' = TRUE
    /\ exitCode' = FatalExitCode

\* The positions of main at which it waits for a line from the terminal.
Prompts == {"askRunId", "askPollFrequency", "askNumberOfAttempts", "askRepo",
            "askRepoOwner"}

\* The positions of main that are passed without suspending.
Immediate == {"load", "getRunId", "getPollFrequency", "getNumberOfAttempts",
              "getRepo", "getRepoOwner", "classify"}

(***************************************************************************)
(* The top-level statements of the module: config(), the readline          *)
(* interface, the token check, the client, and the call of main.           *)
(***************************************************************************)
LoadModule ==
    /\ pc = "load"
    /\ ~exited
    /\ rlOpen' = TRUE
    /\ \E authToken \in TokenValues :
          IF Falsy(authToken)
          THEN /\ Uncaught
               /\ errors' = errors + 1
          ELSE /\ pc' = "getRunId"
               /\ UNCHANGED <<exited, exitCode, errors>>
    /\ UNCHANGED <<answer, envValue, cfgVars, loopVars, pollVars, retrVars, reruns, tallies, anomalies,
                   totalsLogged, fatalErrors, remoteVars>>

(***************************************************************************)
(* The configuration: five values, each from its environment variable or   *)
(* from a line read from the terminal.                                     *)
(***************************************************************************)
GetRunIdFromUser ==
    /\ pc = "getRunId"
    /\ ~exited
    /\ \E env \in RunIdEnvValues :
          IF ~Falsy(env)
          THEN /\ RUN_ID' = ParseInt(env)
               /\ pc' = "getPollFrequency"
               /\ envValue' = env
          ELSE /\ pc' = "askRunId"
               /\ envValue' = env
               /\ UNCHANGED RUN_ID
    /\ UNCHANGED <<rlOpen, exited, exitCode, answer, POLL_FREQUENCY_MS, NUMBER_OF_ATTEMPTS,
                   REPO_NAME, REPO_OWNER, loopVars, pollVars, retrVars, histVars, remoteVars>>

\* An empty answer calls getRunIdFromUser again, which asks again.
AnswerRunId ==
    /\ pc = "askRunId"
    /\ ~exited
    /\ rlOpen
    /\ \E runId \in RunIdAnswers :
          /\ answer' = runId
          /\ IF Falsy(runId)
             THEN UNCHANGED <<pc, RUN_ID>>
             ELSE /\ RUN_ID' = ParseInt(runId)
                  /\ pc' = "getPollFrequency"
    /\ UNCHANGED <<rlOpen, exited, exitCode, envValue, POLL_FREQUENCY_MS, NUMBER_OF_ATTEMPTS,
                   REPO_NAME, REPO_OWNER, loopVars, pollVars, retrVars, histVars, remoteVars>>

GetPollFrequencyFromUser ==
    /\ pc = "getPollFrequency"
    /\ ~exited
    /\ \E env \in PollFrequencyEnvValues :
          IF ~Falsy(env)
          THEN /\ POLL_FREQUENCY_MS' = ParseInt(env)
               /\ pc' = "getNumberOfAttempts"
               /\ envValue' = env
          ELSE /\ pc' = "askPollFrequency"
               /\ envValue' = env
               /\ UNCHANGED POLL_FREQUENCY_MS
    /\ UNCHANGED <<rlOpen, exited, exitCode, answer, RUN_ID, NUMBER_OF_ATTEMPTS,
                   REPO_NAME, REPO_OWNER, loopVars, pollVars, retrVars, histVars, remoteVars>>

AnswerPollFrequency ==
    /\ pc = "askPollFrequency"
    /\ ~exited
    /\ rlOpen
    /\ \E pollFrequencySeconds \in PollFrequencyAnswers :
          /\ answer' = pollFrequencySeconds
          /\ POLL_FREQUENCY_MS' =
                IF Falsy(pollFrequencySeconds)
                THEN DefaultPollFrequencyMs
                ELSE Times(ParseInt(pollFrequencySeconds), MsPerSecond)
    /\ pc' = "getNumberOfAttempts"
    /\ UNCHANGED <<rlOpen, exited, exitCode, envValue, RUN_ID, NUMBER_OF_ATTEMPTS,
                   REPO_NAME, REPO_OWNER, loopVars, pollVars, retrVars, histVars, remoteVars>>

GetNumberOfAttemptsFromUser ==
    /\ pc = "getNumberOfAttempts"
    /\ ~exited
    /\ \E env \in NumberOfAttemptsEnvValues :
          IF ~Falsy(env)
          THEN /\ NUMBER_OF_ATTEMPTS' = ParseInt(env)
               /\ pc' = "getRepo"
               /\ envValue' = env
          ELSE /\ pc' = "askNumberOfAttempts"
               /\ envValue' = env
               /\ UNCHANGED NUMBER_OF_ATTEMPTS
    /\ UNCHANGED <<rlOpen, exited, exitCode, answer, RUN_ID, POLL_FREQUENCY_MS,
                   REPO_NAME, REPO_OWNER, loopVars, pollVars, retrVars, histVars, remoteVars>>

AnswerNumberOfAttempts ==
    /\ pc = "askNumberOfAttempts"
    /\ ~exited
    /\ rlOpen
    /\ \E numAttempts \in NumberOfAttemptsAnswers :
          /\ answer' = numAttempts
          /\ NUMBER_OF_ATTEMPTS' =
                IF Falsy(numAttempts)
                THEN DefaultNumberOfAttempts
                ELSE ParseInt(numAttempts)
    /\ pc' = "getRepo"
    /\ UNCHANGED <<rlOpen, exited, exitCode, envValue, RUN_ID, POLL_FREQUENCY_MS,
                   REPO_NAME, REPO_OWNER, loopVars, pollVars, retrVars, histVars, remoteVars>>

GetRepoFromUser ==
    /\ pc = "getRepo"
    /\ ~exited
    /\ \E env \in RepoEnvValues :
          IF ~Falsy(env)
          THEN /\ REPO_NAME' = env
               /\ pc' = "getRepoOwner"
               /\ envValue' = env
          ELSE /\ pc' = "askRepo"
               /\ envValue' = env
               /\ UNCHANGED REPO_NAME
    /\ UNCHANGED <<rlOpen, exited, exitCode, answer, RUN_ID, POLL_FREQUENCY_MS,
                   NUMBER_OF_ATTEMPTS, REPO_OWNER, loopVars, pollVars, retrVars, histVars,
                   remoteVars>>

AnswerRepo ==
    /\ pc = "askRepo"
    /\ ~exited
    /\ rlOpen
    /\ \E repo \in RepoAnswers :
          /\ answer' = repo
          /\ IF Falsy(repo)
             THEN UNCHANGED <<pc, REPO_NAME>>
             ELSE /\ REPO_NAME' = repo
                  /\ pc' = "getRepoOwner"
    /\ UNCHANGED <<rlOpen, exited, exitCode, envValue, RUN_ID, POLL_FREQUENCY_MS,
                   NUMBER_OF_ATTEMPTS, REPO_OWNER, loopVars, pollVars, retrVars, histVars,
                   remoteVars>>

\* The last value: with it the configuration is complete, and main goes on to
\* getRun and waits for its response.
GetRepoOwnerFromUser ==
    /\ pc = "getRepoOwner"
    /\ ~exited
    /\ \E env \in RepoOwnerEnvValues :
          IF ~Falsy(env)
          THEN /\ REPO_OWNER' = env
               /\ pc' = "getRun"
               /\ envValue' = env
               /\ answer' = <<>>
          ELSE /\ pc' = "askRepoOwner"
               /\ envValue' = env
               /\ UNCHANGED <<REPO_OWNER, answer>>
    /\ UNCHANGED <<rlOpen, exited, exitCode, RUN_ID, POLL_FREQUENCY_MS,
                   NUMBER_OF_ATTEMPTS, REPO_NAME, loopVars, pollVars, retrVars, histVars,
                   remoteVars>>

AnswerRepoOwner ==
    /\ pc = "askRepoOwner"
    /\ ~exited
    /\ rlOpen
    /\ \E repoOwner \in RepoOwnerAnswers :
          IF Falsy(repoOwner)
          THEN /\ answer' = repoOwner
               /\ UNCHANGED <<pc, REPO_OWNER>>
          ELSE /\ REPO_OWNER' = repoOwner
               /\ pc' = "getRun"
               /\ answer' = <<>>
    /\ UNCHANGED <<rlOpen, exited, exitCode, envValue, RUN_ID, POLL_FREQUENCY_MS,
                   NUMBER_OF_ATTEMPTS, REPO_NAME, loopVars, pollVars, retrVars, histVars,
                   remoteVars>>


(***************************************************************************)
(* The remote provider as the client sees it.                              *)
(***************************************************************************)
\* The latest attempt of the run has completed and no rerun is being registered:
\* the remote accepts a rerun only then.
RerunAcceptable ==
    /\ creating = "none"
    /\ attempts[Len(attempts)].status = "completed"

\* getAttempt: the attempt's data, or an error raised to the caller (the
\* attempt does not exist, or the request failed).
GetAttempt(n) ==
    {[raised |-> TRUE, data |-> NoAttempt]}
    \cup (IF n \in 1..Len(attempts)
          THEN {[raised |-> FALSE, data |-> attempts[n]]}
          ELSE {})

\* How the request for the run can end.
RunLookupOutcomes == {"ok", "transport error", "API error", "not found"}

\* A variant of getRun without the try / catch: the error of the request is
\* raised to main.
GetRunRaises(outcome) ==
    IF outcome = "ok"
    THEN [raised |-> FALSE, found |-> TRUE, run_attempt |-> Len(attempts)]
    ELSE [raised |-> TRUE, found |-> FALSE, run_attempt |-> 0]

\* getRun: the run's data, or undefined after an error of the request, which
\* the catch block logs and swallows whatever it is.
GetRun(outcome) ==
    IF outcome = "ok"
    THEN [raised |-> FALSE, found |-> TRUE, run_attempt |-> Len(attempts)]
    ELSE [raised |-> FALSE, found |-> FALSE, run_attempt |-> 0]

(***************************************************************************)
(* The loop of main.                                                       *)
(***************************************************************************)
\* A variant that starts from 1 whatever the run's attempt count is.
InitialAttemptCountOne(run_attempt) == 1

\* initialRun.run_attempt || 1
InitialAttemptCount(run_attempt) == IF run_attempt = 0 THEN 1 ELSE run_attempt

\* A variant that takes the number from the remote's latest attempt instead.
ExpectedAttemptCountFromRemote(initial, iter) == Len(attempts)

\* initialAttemptCount + iteration
ExpectedAttemptCount(initial, iter) == initial + iter

\* A variant of the loop test that lets one iteration more through.
LoopConditionOneMore(iter) == NUMBER_OF_ATTEMPTS # NaN /\ iter <= NUMBER_OF_ATTEMPTS + 1

\* A variant of the loop test that stops one iteration early.
LoopConditionStrict(iter) == NUMBER_OF_ATTEMPTS # NaN /\ iter < NUMBER_OF_ATTEMPTS

\* iteration <= NUMBER_OF_ATTEMPTS
LoopCondition(iter) == NUMBER_OF_ATTEMPTS # NaN /\ iter <= NUMBER_OF_ATTEMPTS

\* A variant of the status test with another word for the status.
IsCompletedMisspelt(status) == status = "complete"

\* A variant of the status test that takes a started attempt for a completed one.
IsCompletedOrStarted(status) == status # "queued"

\* attempt.status === "completed"
IsCompleted(status) == status = "completed"

\* Variants of the classification: one whose second test never matches, one
\* with the first two branches exchanged, one whose second branch takes
\* every conclusion but success.
ClassificationFailureUnmatched(conclusion) ==
    CASE conclusion = "success" -> "success"
      [] OTHER -> "other"

ClassificationExchanged(conclusion) ==
    CASE conclusion = "success" -> "failure"
      [] conclusion = "failure" -> "success"
      [] OTHER -> "other"

ClassificationNotSuccessIsFailure(conclusion) ==
    CASE conclusion = "success" -> "success"
      [] OTHER -> "failure"

\* The branch of the if / else if / else on finishedAttempt.conclusion.
Classification(conclusion) ==
    CASE conclusion = "success" -> "success"
      [] conclusion = "failure" -> "failure"
      [] OTHER -> "other"

\* A variant that calls the retriever without awaiting it.
RetrievalNotAwaited == FALSE

\* `await` before downloadArtifactsForFailedAttempt(...): main goes on only
\* when the retriever has settled.
AwaitRetrieval == TRUE

\* The retriever at position r has something left to do.
RetrieverActive(r) == r \notin {"idle", "returned", "raised"}

\* An error raised inside main: nothing more of main runs.
FatalStep ==
    /\ Fatal
    /\ errors' = errors + 1
    /\ UNCHANGED <<reruns, totalsLogged>>

\* A variant that waits once more and fetches again when the first fetch raises.
AttemptNotCreatedRetries ==
    /\ pc' = "grace"
    /\ errors' = errors + 1
    /\ UNCHANGED <<fatalErrors, exited, exitCode, reruns, totalsLogged>>

\* The first fetch of the expected attempt raises: no try / catch is around
\* it, so the error leaves main.
AttemptNotCreated == FatalStep

\* The loop test with iteration = iter, and what follows it up to the next
\* await: the rerun request of the next iteration, or the final totals and
\* the return of main.  Nothing ends the process then but the event loop
\* running empty, which it does not while rl is open.
LoopHead(iter) ==
    IF LoopCondition(iter)
    THEN /\ iter <= MaxIterations
         /\ pc' = "rerun"
         /\ reruns' = reruns + 1
         /\ UNCHANGED <<totalsLogged, errors, fatalErrors, exited, exitCode>>
    ELSE /\ pc' = "returned"
         /\ totalsLogged' = TRUE
         /\ IF rlOpen \/ RetrieverActive(rpc')
            THEN UNCHANGED <<exited, exitCode>>
            ELSE exited' = TRUE /\ exitCode' = NormalExitCode
         /\ UNCHANGED <<reruns, errors, fatalErrors>>

\* The end of an iteration: the running tally, iteration++, the loop test.
EndIteration ==
    /\ tallies' = tallies + 1
    /\ iteration' = iteration + 1
    /\ LoopHead(iteration + 1)

\* getRun has answered.  The resolvers of the configuration have returned:
\* what they read is gone.
GetRunResponse ==
    /\ pc = "getRun"
    /\ ~exited
    /\ envValue' = <<>>
    /\ UNCHANGED <<rlOpen, answer, cfgVars, successes, failures, expectedAttemptCount,
                   finishedAttempt, pollVars, retrVars, tallies, anomalies, remoteVars>>
    /\ \E outcome \in RunLookupOutcomes :
          LET res == GetRun(outcome) IN
          IF res.raised
          THEN /\ FatalStep
               /\ UNCHANGED <<initialRun, initialAttemptCount, iteration>>
          ELSE IF ~res.found
          THEN /\ initialRun' = "absent"
               /\ FatalStep
               /\ UNCHANGED <<initialAttemptCount, iteration>>
          ELSE /\ initialRun' = "found"
               /\ initialAttemptCount' = InitialAttemptCount(res.run_attempt)
               /\ iteration' = 1
               /\ LoopHead(1)

\* A variant that waits the configured poll frequency.
GracePeriodConfigured == POLL_FREQUENCY_MS

\* sleep(10000): the argument of the sleep that follows the rerun request.
GracePeriod == GraceMs

\* The rerun request has answered: the remote accepted it, or an error is raised.
RerunResponse ==
    /\ pc = "rerun"
    /\ ~exited
    /\ \/ /\ RerunAcceptable
          /\ creating' = "self"
          /\ pc' = "grace"
          /\ sleptMs' = GracePeriod
          /\ UNCHANGED <<exited, exitCode, errors, fatalErrors, reruns, totalsLogged>>
       \/ /\ FatalStep
          /\ UNCHANGED <<creating, sleptMs>>
    /\ UNCHANGED <<rlOpen, answer, envValue, cfgVars, loopVars, attemptNumber, attempt, retrVars,
                   tallies, anomalies, attempts, externalReruns>>

\* sleep(10000) is over: main computes the expected attempt and fetches it.
GraceElapsed ==
    /\ pc = "grace"
    /\ ~exited
    /\ expectedAttemptCount' = ExpectedAttemptCount(initialAttemptCount, iteration)
    /\ attemptNumber' = expectedAttemptCount'
    /\ pc' = "getAttempt"
    /\ UNCHANGED <<rlOpen, exited, exitCode, answer, envValue, cfgVars, successes, failures, iteration,
                   initialRun, initialAttemptCount, finishedAttempt, attempt, sleptMs, retrVars,
                   histVars, remoteVars>>

\* The first fetch of the expected attempt has answered.  The data of a
\* response is an object, so `!currentAttempt` is false whenever the fetch
\* returns; main calls sleepUntilAttemptCompleted, which fetches again.
FirstFetchResponse ==
    /\ pc = "getAttempt"
    /\ ~exited
    /\ \E currentAttemptRes \in GetAttempt(attemptNumber) :
          IF currentAttemptRes.raised
          THEN AttemptNotCreated
          ELSE /\ pc' = "poll"
               /\ UNCHANGED <<exited, exitCode, errors, fatalErrors, reruns, totalsLogged>>
    /\ UNCHANGED <<rlOpen, answer, envValue, cfgVars, loopVars, pollVars, retrVars, tallies,
                   anomalies, remoteVars>>

\* The fetch of sleepUntilAttemptCompleted has answered.
PollResponse ==
    /\ pc = "poll"
    /\ ~exited
    /\ \E currentAttemptRes \in GetAttempt(attemptNumber) :
          IF currentAttemptRes.raised
          THEN /\ FatalStep
               /\ UNCHANGED <<attempt, sleptMs>>
          ELSE /\ attempt' = currentAttemptRes.data
               /\ IF IsCompleted(attempt'.status)
                  THEN /\ pc' = "getFinished"
                       /\ UNCHANGED sleptMs
                  ELSE /\ pc' = "pollSleep"
                       /\ sleptMs' = POLL_FREQUENCY_MS
               /\ UNCHANGED <<exited, exitCode, errors, fatalErrors, reruns, totalsLogged>>
    /\ UNCHANGED <<rlOpen, answer, envValue, cfgVars, loopVars, attemptNumber, retrVars, tallies,
                   anomalies, remoteVars>>

\* sleep(pollFrequencyMs) is over: sleepUntilAttemptCompleted calls itself.
PollSleepElapsed ==
    /\ pc = "pollSleep"
    /\ ~exited
    /\ pc' = "poll"
    /\ UNCHANGED <<rlOpen, exited, exitCode, answer, envValue, cfgVars, loopVars, pollVars, retrVars,
                   histVars, remoteVars>>

\* A variant that takes the attempt the last poll returned.
FinishedAttemptAsPolled(fetched) == attempt

\* const finishedAttempt = await getAttempt(...): the data this fetch returned.
FinishedAttempt(fetched) == fetched

\* The fetch after polling has answered: main has the finished attempt and
\* logs its conclusion.
FinishedAttemptResponse ==
    /\ pc = "getFinished"
    /\ ~exited
    /\ \E finishedAttemptRes \in GetAttempt(attemptNumber) :
          IF finishedAttemptRes.raised
          THEN /\ FatalStep
               /\ UNCHANGED finishedAttempt
          ELSE /\ finishedAttempt' = FinishedAttempt(finishedAttemptRes.data)
               /\ pc' = "classify"
               /\ UNCHANGED <<exited, exitCode, errors, fatalErrors, reruns, totalsLogged>>
    /\ UNCHANGED <<rlOpen, answer, envValue, cfgVars, successes, failures, iteration, initialRun,
                   initialAttemptCount, expectedAttemptCount, pollVars, retrVars, tallies,
                   anomalies, remoteVars>>

\* main classifies the conclusion: successes++ and the end of the iteration,
\* or the call of the retriever, which runs up to its first fetch, or the
\* "Unknown conclusion" line and the end of the iteration.
Classify ==
    /\ pc = "classify"
    /\ ~exited
    /\ UNCHANGED <<rlOpen, answer, envValue, cfgVars, initialRun, initialAttemptCount,
                   expectedAttemptCount, finishedAttempt, pollVars, rArtifacts, dirs, files,
                   remoteVars>>
    /\ CASE Classification(finishedAttempt.conclusion) = "success" ->
              /\ successes' = successes + 1
              /\ UNCHANGED <<failures, anomalies, rpc, rAttemptNumber>>
              /\ EndIteration
         [] Classification(finishedAttempt.conclusion) = "failure" ->
              /\ rpc' = "getAttempt"
              /\ rAttemptNumber' = expectedAttemptCount
              /\ UNCHANGED <<successes, anomalies>>
              /\ IF AwaitRetrieval
                 THEN /\ pc' = "download"
                      /\ UNCHANGED <<failures, iteration, tallies, reruns, totalsLogged,
                                     errors, fatalErrors, exited, exitCode>>
                 ELSE /\ failures' = failures + 1
                      /\ EndIteration
         [] OTHER ->
              /\ anomalies' = anomalies + 1
              /\ UNCHANGED <<successes, failures, rpc, rAttemptNumber>>
              /\ EndIteration

\* downloadArtifactsForFailedAttempt has settled and main resumes: failures++
\* and the end of the iteration, or the retriever's error raised in main.
RetrievalSettled ==
    /\ pc = "download"
    /\ ~exited
    /\ rpc \in {"returned", "raised"}
    /\ rpc' = "idle"
    /\ IF rpc = "raised"
       THEN /\ Fatal
            /\ UNCHANGED <<errors, reruns, totalsLogged, failures, iteration, tallies>>
       ELSE /\ failures' = failures + 1
            /\ EndIteration
    /\ UNCHANGED <<rlOpen, answer, envValue, cfgVars, successes, initialRun, initialAttemptCount,
                   expectedAttemptCount, finishedAttempt, pollVars, rAttemptNumber,
                   rArtifacts, dirs, files, anomalies, remoteVars>>

(***************************************************************************)
(* downloadArtifactsForFailedAttempt, started by main with the expected    *)
(* attempt number.  It fetches the attempt, lists the artifacts of the run *)
(* and, for each artifact in turn, asks for the download URL, makes the    *)
(* directory and downloads the archive (downloadFile: fetch, then the      *)
(* pipeline into the file).                                                *)
(***************************************************************************)
\* An error raised inside the retriever rejects its promise.
RetrieverRaises ==
    /\ rpc' = "raised"
    /\ errors' = errors + 1
    /\ UNCHANGED <<rArtifacts, dirs, files>>

\* What no step of the retriever changes.
retrFrame == <<procVars, cfgVars, loopVars, pollVars, rAttemptNumber, reruns, tallies,
               anomalies, totalsLogged, fatalErrors, remoteVars>>

\* The artifacts a listing can return: artifact ids 1..k in order.
ArtifactLists == {[i \in 1..k |-> i] : k \in 0..MaxArtifacts}

RetrieverAttemptResponse ==
    /\ rpc = "getAttempt"
    /\ ~exited
    /\ \E attemptRes \in GetAttempt(rAttemptNumber) :
          IF attemptRes.raised
          THEN RetrieverRaises
          ELSE /\ rpc' = "listArtifacts"
               /\ UNCHANGED <<rArtifacts, dirs, files, errors>>
    /\ UNCHANGED retrFrame

\* A variant that takes an empty listing for an error.
AfterListingEmptyRaises(artifacts) ==
    IF Len(artifacts) = 0 THEN "raised" ELSE "getDownloadUrl"

\* if (artifacts.length === 0) return; else the loop starts with the request
\* for the download URL of the first artifact.
AfterListing(artifacts) == IF Len(artifacts) = 0 THEN "returned" ELSE "getDownloadUrl"

ListArtifactsResponse ==
    /\ rpc = "listArtifacts"
    /\ ~exited
    /\ \/ RetrieverRaises
       \/ \E artifacts \in ArtifactLists :
             /\ rArtifacts' = artifacts
             /\ rpc' = AfterListing(artifacts)
             /\ UNCHANGED <<dirs, files, errors>>
    /\ UNCHANGED retrFrame

\* The request for the archive of the first artifact left has answered.
DownloadUrlResponse ==
    /\ rpc = "getDownloadUrl"
    /\ ~exited
    /\ \/ RetrieverRaises
       \/ \E url \in {<<>>, <<"u">>} :
             IF Falsy(url)
             THEN RetrieverRaises
             ELSE /\ rpc' = "mkdir"
                  /\ UNCHANGED <<rArtifacts, dirs, files, errors>>
    /\ UNCHANGED retrFrame

\* fs.promises.mkdir(artifactFilePath, { recursive: true }) has settled.
MkdirSettled ==
    /\ rpc = "mkdir"
    /\ ~exited
    /\ \/ RetrieverRaises
       \/ /\ dirs' = dirs \cup {rAttemptNumber}
          /\ rpc' = "fetch"
          /\ UNCHANGED <<rArtifacts, files, errors>>
    /\ UNCHANGED retrFrame

\* fetch(url) of downloadFile has settled.
FetchResponse ==
    /\ rpc = "fetch"
    /\ ~exited
    /\ \/ RetrieverRaises
       \/ \E ok \in BOOLEAN :
             IF ~ok
             THEN RetrieverRaises
             ELSE /\ rpc' = "pipeline"
                  /\ UNCHANGED <<rArtifacts, dirs, files, errors>>
    /\ UNCHANGED retrFrame

\* The pipeline into `${artifact.name}.zip` has settled.  When it fails the
\* file may have been created already.
PipelineSettled ==
    /\ rpc = "pipeline"
    /\ ~exited
    /\ \/ /\ rpc' = "raised"
          /\ errors' = errors + 1
          /\ files' \in {files, files \cup {<<rAttemptNumber, Head(rArtifacts)>>}}
          /\ UNCHANGED <<rArtifacts, dirs>>
       \/ /\ files' = files \cup {<<rAttemptNumber, Head(rArtifacts)>>}
          /\ rArtifacts' = Tail(rArtifacts)
          /\ rpc' = IF Len(rArtifacts) = 1 THEN "returned" ELSE "getDownloadUrl"
          /\ UNCHANGED <<dirs, errors>>
    /\ UNCHANGED retrFrame

(***************************************************************************)
(* The environment: the terminal and the remote provider.                  *)
(***************************************************************************)
\* The positions at which main has nothing pending but, at most, a line from
\* the terminal.
Idle == Prompts \cup {"returned"}

\* The terminal's input ends: rl closes.  A question that is pending is never
\* answered.  With rl closed and nothing else pending the event loop is empty
\* and the process ends.
StdinEnd ==
    /\ rlOpen
    /\ ~exited
    /\ pc \notin Immediate
    /\ rlOpen' = FALSE
    /\ IF pc \in Idle /\ ~RetrieverActive(rpc)
       THEN exited' = TRUE /\ exitCode' = NormalExitCode
       ELSE UNCHANGED <<exited, exitCode>>
    /\ UNCHANGED <<pc, answer, envValue, cfgVars, loopVars, pollVars, retrVars, histVars, remoteVars>>

\* The remote registers the attempt of an accepted rerun.
RemoteRegisterAttempt ==
    /\ ~exited
    /\ creating # "none"
    /\ attempts' = Append(attempts, [status |-> "queued", conclusion |-> "null",
                                     actor |-> creating])
    /\ creating' = "none"
    /\ UNCHANGED <<procVars, cfgVars, loopVars, pollVars, retrVars, histVars,
                   externalReruns>>

\* The latest attempt starts, or completes with some conclusion.
RemoteProgress ==
    /\ ~exited
    /\ LET n == Len(attempts) IN
          \/ /\ attempts[n].status = "queued"
             /\ attempts' = [attempts EXCEPT ![n].status = "in_progress"]
          \/ /\ attempts[n].status = "in_progress"
             /\ \E c \in Conclusions :
                   attempts' = [attempts EXCEPT ![n].status = "completed",
                                                ![n].conclusion = c]
    /\ UNCHANGED <<procVars, cfgVars, loopVars, pollVars, retrVars, histVars,
                   creating, externalReruns>>

\* Somebody else reruns the run after main has looked it up (what others did
\* before is in the attempts the run starts with).  The remote accepts a rerun
\* only with the latest attempt completed, so main's next rerun is accepted
\* only when this attempt has completed, and main never asks for an attempt
\* later than the one its latest rerun created: main sees this attempt only
\* completed, and it is registered here as it is then.  Whose attempt main
\* takes does not depend on that attempt's conclusion: it is success here.
ExternalRerun ==
    /\ ~exited
    /\ initialRun = "found"
    /\ externalReruns < MaxExternalReruns
    /\ RerunAcceptable
    /\ attempts' = Append(attempts, [status |-> "completed", conclusion |-> "success",
                                     actor |-> "other"])
    /\ externalReruns' = externalReruns + 1
    /\ UNCHANGED <<procVars, cfgVars, loopVars, pollVars, retrVars, histVars, creating>>

\* The remote takes the latest attempt of the run, which had completed, back:
\* the attempt waits (for an approval, say) and nothing of the model makes it
\* go on; the conclusion it had stays in the data or is removed.  With a rerun
\* accepted the attempt is not the latest any more.
RemoteRevert ==
    /\ ~exited
    /\ creating = "none"
    /\ LET n == Len(attempts) IN
          /\ attempts[n].status = "completed"
          /\ \E c \in {attempts[n].conclusion, "null"} :
                attempts' = [attempts EXCEPT ![n].status = "waiting",
                                             ![n].conclusion = c]
    /\ UNCHANGED <<procVars, cfgVars, loopVars, pollVars, retrVars, histVars, creating,
                   externalReruns>>

\* The remote has taken a completed attempt back.
Reverted == \E n \in 1..Len(attempts) : attempts[n].status = "waiting"

Next ==
    \/ LoadModule
    \/ GetRunIdFromUser
    \/ AnswerRunId
    \/ GetPollFrequencyFromUser
    \/ AnswerPollFrequency
    \/ GetNumberOfAttemptsFromUser
    \/ AnswerNumberOfAttempts
    \/ GetRepoFromUser
    \/ AnswerRepo
    \/ GetRepoOwnerFromUser
    \/ AnswerRepoOwner
    \/ GetRunResponse
    \/ RerunResponse
    \/ GraceElapsed
    \/ FirstFetchResponse
    \/ PollResponse
    \/ PollSleepElapsed
    \/ FinishedAttemptResponse
    \/ Classify
    \/ RetrievalSettled
    \/ RetrieverAttemptResponse
    \/ ListArtifactsResponse
    \/ DownloadUrlResponse
    \/ MkdirSettled
    \/ FetchResponse
    \/ PipelineSettled
    \/ StdinEnd
    \/ RemoteRegisterAttempt
    \/ RemoteProgress

\* The script and the remote, nobody else rerunning the run.
Spec == Init /\ [][Next]_vars

\* The same with other parties that rerun the run.
NextWithOthers ==
    \/ Next
    \/ ExternalRerun

SpecWithOthers == Init /\ [][NextWithOthers]_vars

\* The script and a remote that may take a completed attempt back.
NextWithRevert ==
    \/ Next
    \/ RemoteRevert

SpecWithRevert == Init /\ [][NextWithRevert]_vars


(***************************************************************************)
(* Fairness: a timer that was set fires, and a request, a file operation   *)
(* or the retriever that main awaits settles.  Nothing makes the user      *)
(* answer, the terminal's input end or the remote make progress.           *)
(***************************************************************************)
Fairness ==
    /\ WF_vars(LoadModule)
    /\ WF_vars(GetRunIdFromUser)
    /\ WF_vars(GetPollFrequencyFromUser)
    /\ WF_vars(GetNumberOfAttemptsFromUser)
    /\ WF_vars(GetRepoFromUser)
    /\ WF_vars(GetRepoOwnerFromUser)
    /\ WF_vars(GetRunResponse)
    /\ WF_vars(RerunResponse)
    /\ WF_vars(GraceElapsed)
    /\ WF_vars(FirstFetchResponse)
    /\ WF_vars(PollResponse)
    /\ WF_vars(PollSleepElapsed)
    /\ WF_vars(FinishedAttemptResponse)
    /\ WF_vars(Classify)
    /\ WF_vars(RetrievalSettled)
    /\ WF_vars(RetrieverAttemptResponse)
    /\ WF_vars(ListArtifactsResponse)
    /\ WF_vars(DownloadUrlResponse)
    /\ WF_vars(MkdirSettled)
    /\ WF_vars(FetchResponse)
    /\ WF_vars(PipelineSettled)

FairSpec == Spec /\ Fairness

(***************************************************************************)
(* Properties.                                                             *)
(***************************************************************************)
\* The positions of main inside the body of the loop.
InLoopBody == {"rerun", "grace", "getAttempt", "poll", "pollSleep", "getFinished",
               "classify", "download"}

\* The positions of main at which the expected attempt number is in use.
UsesExpectedAttempt == {"getAttempt", "poll", "pollSleep", "getFinished", "classify",
                        "download"}

\* C1: for an attempt count N >= 0 the loop runs exactly N iterations, with
\* iteration index 1..N inside the body, and when main has left the loop the
\* successes, the failures and the anomalous conclusions add up to N (as do
\* the reruns triggered and the running tallies logged).
C1_LoopRunsExactlyN ==
    /\ pc \in InLoopBody => iteration \in 1..NUMBER_OF_ATTEMPTS
    /\ (totalsLogged /\ NUMBER_OF_ATTEMPTS >= 0) =>
          /\ iteration = NUMBER_OF_ATTEMPTS + 1
          /\ reruns = NUMBER_OF_ATTEMPTS
          /\ tallies = NUMBER_OF_ATTEMPTS
          /\ successes + failures + anomalies = NUMBER_OF_ATTEMPTS

C1_Witness ==
    /\ totalsLogged
    /\ NUMBER_OF_ATTEMPTS = 2
    /\ failures = 1
    /\ anomalies = 1

\* C2: whenever main fetches, polls or classifies an attempt, and whenever the
\* retriever runs, the attempt number in use is initialAttemptCount +
\* iteration; initialAttemptCount is the run_attempt that getRun returned and
\* never changes once set; the expected attempt number changes only by
\* becoming one more than it was (initialAttemptCount + 1 the first time).
C2_Step ==
    /\ pc' \in UsesExpectedAttempt =>
          /\ expectedAttemptCount' = initialAttemptCount' + iteration'
          /\ attemptNumber' = expectedAttemptCount'
    /\ RetrieverActive(rpc') => rAttemptNumber' = initialAttemptCount' + iteration'
    /\ initialAttemptCount # 0 => initialAttemptCount' = initialAttemptCount
    /\ (initialAttemptCount = 0 /\ initialAttemptCount' # 0) =>
          initialAttemptCount' = Len(attempts)
    /\ expectedAttemptCount' # expectedAttemptCount =>
          /\ pc = "grace"
          /\ expectedAttemptCount' =
                IF expectedAttemptCount = 0
                THEN initialAttemptCount + 1
                ELSE expectedAttemptCount + 1

\* C2: in every step the attempt number in use is initialAttemptCount +
\* iteration and grows by exactly 1 from one iteration to the next.
C2_ExpectedAttemptNumber == [][C2_Step]_vars

C2_Witness ==
    /\ pc = "getFinished"
    /\ iteration = 2
    /\ initialAttemptCount = 2
    /\ attemptNumber = 4


\* Main leaves position p in this step.
Leaves(p) == pc = p /\ pc' # p

\* The positions of an iteration up to and including the classification.
BeforeRetrieval == {"rerun", "grace", "getAttempt", "poll", "pollSleep", "getFinished",
                    "classify"}

\* What holds of every failure: main, classifying a finished attempt with
\* conclusion failure, changes no counter, starts the retriever with RUN_ID's
\* expected attempt number and waits for it in the same iteration; the
\* failure counter changes in no other way than by growing by 1 when main
\* leaves that wait.
C3_RetrievalStarted ==
    /\ (Leaves("classify") /\ finishedAttempt.conclusion = "failure") =>
          /\ pc' = "download"
          /\ rpc' = "getAttempt"
          /\ rAttemptNumber' = expectedAttemptCount
          /\ rAttemptNumber' = initialAttemptCount + iteration
          /\ UNCHANGED <<successes, failures, iteration>>
    /\ pc = "download" =>
          /\ finishedAttempt.conclusion = "failure"
          /\ UNCHANGED <<successes, iteration, finishedAttempt, rAttemptNumber>> \/ Leaves("download")
    /\ failures' # failures =>
          /\ Leaves("download")
          /\ failures' = failures + 1

\* C3 as stated: every completed attempt with conclusion failure makes the
\* failure counter grow by exactly 1, the success counter unchanged, with an
\* artifact retrieval for that attempt in the same iteration.
C3_Original_Step ==
    /\ C3_RetrievalStarted
    /\ Leaves("download") =>
          /\ failures' = failures + 1
          /\ successes' = successes
          /\ iteration' = iteration + 1

\* C3 as stated: every step that ends the wait for the retrieval of a failed
\* attempt adds 1 to the failure counter.
C3_Original == [][C3_Original_Step]_vars

\* C3 amended: the failure counter grows by exactly 1 (success counter
\* unchanged, iteration ended) when the retrieval has returned; when the
\* retrieval has raised, main ends fatally with both counters as they were.
C3_Amended_Step ==
    /\ C3_RetrievalStarted
    /\ Leaves("download") =>
          IF rpc = "returned"
          THEN /\ failures' = failures + 1
               /\ successes' = successes
               /\ iteration' = iteration + 1
          ELSE /\ rpc = "raised"
               /\ UNCHANGED <<failures, successes, iteration>>
               /\ pc' = "rejected"
               /\ exited'
               /\ exitCode' = FatalExitCode

\* C3 amended: a failure starts the retrieval for its attempt and is counted
\* once the retrieval has returned; a retrieval that raises ends the process
\* with the counters unchanged.
C3_FailureCounted == [][C3_Amended_Step]_vars

C3_Witness ==
    /\ failures = 1
    /\ successes = 0
    /\ iteration = 2
    /\ pc = "rerun"
    /\ <<initialAttemptCount + 1, 1>> \in files

\* C4: main, classifying a finished attempt with conclusion success, adds 1
\* to the success counter, leaves the failure counter alone and ends the
\* iteration; the retriever has not run in that iteration and does not start,
\* and nothing is written to the file system; the success counter changes in
\* no other step.
C4_Step ==
    /\ (Leaves("classify") /\ finishedAttempt.conclusion = "success") =>
          /\ successes' = successes + 1
          /\ UNCHANGED <<failures, anomalies>>
          /\ iteration' = iteration + 1
          /\ tallies' = tallies + 1
          /\ rpc = "idle"
          /\ UNCHANGED <<rpc, rAttemptNumber, rArtifacts, dirs, files>>
    /\ pc' \in BeforeRetrieval => rpc' = "idle"
    /\ pc \in BeforeRetrieval => UNCHANGED <<dirs, files>>
    /\ successes' # successes =>
          /\ Leaves("classify")
          /\ finishedAttempt.conclusion = "success"

\* C4: a success adds 1 to the success counter only, with no retrieval and no
\* write to the file system in that iteration.
C4_SuccessCounted == [][C4_Step]_vars

C4_Witness ==
    /\ successes = 1
    /\ failures = 0
    /\ iteration = 2
    /\ pc = "rerun"
    /\ finishedAttempt.conclusion = "success"
    /\ dirs = {}

\* C5: main, classifying a finished attempt whose conclusion is neither
\* success nor failure, logs it, leaves both counters alone, does not start
\* the retriever, raises no error and ends the iteration: the next iteration
\* starts with its rerun request, or, after the last one, main logs the
\* totals and returns.
C5_Step ==
    (Leaves("classify") /\ finishedAttempt.conclusion \notin {"success", "failure"}) =>
       /\ UNCHANGED <<successes, failures>>
       /\ anomalies' = anomalies + 1
       /\ rpc = "idle"
       /\ UNCHANGED <<rpc, rAttemptNumber, rArtifacts, dirs, files>>
       /\ UNCHANGED <<errors, fatalErrors>>
       /\ iteration' = iteration + 1
       /\ tallies' = tallies + 1
       /\ IF iteration' <= NUMBER_OF_ATTEMPTS
          THEN /\ pc' = "rerun"
               /\ reruns' = reruns + 1
               /\ ~exited'
               /\ ~totalsLogged'
          ELSE /\ pc' = "returned"
               /\ totalsLogged'
               /\ exited' => exitCode' = NormalExitCode

\* C5: a conclusion other than success and failure changes no counter, starts
\* no retrieval, is not fatal, and the loop goes on or ends normally.
C5_OtherConclusionIgnored == [][C5_Step]_vars

C5_Witness ==
    /\ anomalies = 1
    /\ successes = 0
    /\ failures = 0
    /\ iteration = 2
    /\ pc = "rerun"
    /\ finishedAttempt.conclusion = "cancelled"

\* The same in the last iteration: main logs the totals and returns.
C5_WitnessLast ==
    /\ anomalies = 2
    /\ successes = 0
    /\ failures = 0
    /\ pc = "returned"
    /\ totalsLogged


\* C6: when the first fetch of the expected attempt raises, as it does
\* whenever the remote has not registered that attempt, the error is logged
\* and the process ends with code 1 in that step: the fetch is not repeated,
\* the iteration index, the counters, the tallies and the reruns triggered
\* stay as they are, and no step of main follows.
C6_Step ==
    /\ (Leaves("getAttempt") /\ attemptNumber > Len(attempts)) => errors' = errors + 1
    /\ (pc = "getAttempt" /\ errors' # errors) =>
          /\ pc' = "rejected"
          /\ exited'
          /\ exitCode' = FatalExitCode
          /\ fatalErrors' = fatalErrors + 1
          /\ UNCHANGED <<successes, failures, anomalies, iteration, tallies, reruns,
                         totalsLogged, expectedAttemptCount, attemptNumber>>
    /\ pc = "rejected" =>
          UNCHANGED <<pc, successes, failures, iteration, reruns, tallies, totalsLogged>>

\* C6: a first fetch that raises ends the process fatally, with no retry, no
\* skipped iteration, no later rerun and no counter changed.
C6_FirstFetchRaisesFatal == [][C6_Step]_vars

C6_Witness ==
    /\ pc = "rejected"
    /\ exited
    /\ exitCode = FatalExitCode
    /\ iteration = 2
    /\ reruns = 2
    /\ successes = 1
    /\ attemptNumber = initialAttemptCount + 2
    /\ attemptNumber > Len(attempts)
    /\ creating = "self"

\* C7: sleepUntilAttemptCompleted returns to main only in a step in which its
\* fetch returned the attempt with status completed; a fetch that returns any
\* other status is followed by a sleep of POLL_FREQUENCY_MS and that sleep by
\* the next fetch, with no other way out of polling than an error raised by a
\* fetch; while main polls, the counters, the iteration index and the reruns
\* stay as they are; and, timers firing, a sleep between polls always leads
\* to a next fetch.
C7_Step ==
    /\ (pc' = "getFinished" /\ pc # "getFinished") =>
          /\ pc = "poll"
          /\ attempt' = attempts[attemptNumber]
          /\ attempt'.status = "completed"
    /\ (Leaves("poll") /\ errors' = errors) =>
          /\ attempt' = attempts[attemptNumber]
          /\ IF attempt'.status = "completed"
             THEN pc' = "getFinished"
             ELSE pc' = "pollSleep" /\ sleptMs' = POLL_FREQUENCY_MS
    /\ (Leaves("poll") /\ errors' # errors) => pc' = "rejected" /\ exited'
    /\ Leaves("pollSleep") => pc' = "poll"
    /\ (pc' = "poll" /\ pc # "poll") => pc \in {"getAttempt", "pollSleep"}
    /\ pc \in {"poll", "pollSleep"} =>
          UNCHANGED <<successes, failures, anomalies, iteration, tallies, reruns,
                      expectedAttemptCount, attemptNumber, finishedAttempt>>

\* C7: polling ends only on a fetch that returned status completed (or on an
\* error), and goes on, one sleep between two fetches, until then.
C7_PollsUntilCompleted ==
    /\ [][C7_Step]_vars
    /\ (pc = "pollSleep") ~> (pc = "poll")

\* main polls for the second time at least: a fetch returned queued, the
\* sleep of the poll frequency is over, the attempt is still not completed.
C7_Witness ==
    /\ pc = "poll"
    /\ attempt.status = "queued"
    /\ attempts[attemptNumber].status = "in_progress"
    /\ sleptMs = POLL_FREQUENCY_MS
    /\ POLL_FREQUENCY_MS # GraceMs

\* The operations in progress: the request or timer main waits for, and the
\* request or file operation the retriever waits for.
MainOperations == {"getRun", "rerun", "grace", "getAttempt", "poll", "pollSleep",
                   "getFinished"}

InProgress(p, r) ==
    (IF p \in MainOperations THEN 1 ELSE 0) + (IF RetrieverActive(r) THEN 1 ELSE 0)

\* C8: the running tally of an iteration is logged, and the rerun of the next
\* iteration requested, only when the retriever is not running; after a
\* failure that is when it has returned with no artifact left to download;
\* while the retriever runs main waits for it; and never is more than one
\* operation (request, timer, file operation) in progress.
C8_Step ==
    /\ InProgress(pc', rpc') <= 1
    /\ RetrieverActive(rpc) => pc = "download" /\ UNCHANGED <<pc, tallies, reruns, iteration>>
    /\ tallies' # tallies =>
          /\ ~RetrieverActive(rpc) /\ ~RetrieverActive(rpc')
          /\ finishedAttempt.conclusion = "failure" => rpc = "returned" /\ rArtifacts = <<>>
    /\ reruns' # reruns => ~RetrieverActive(rpc) /\ ~RetrieverActive(rpc')
    /\ (rpc' = "returned" /\ rpc # "returned") => rArtifacts' = <<>>

\* C8: the retrieval of a failed iteration has settled before the tally is
\* logged and the next rerun triggered, and no two operations overlap.
C8_RetrievalAwaited == [][C8_Step]_vars

C8_Witness ==
    /\ pc = "rerun"
    /\ iteration = 2
    /\ failures = 1
    /\ tallies = 1
    /\ Cardinality(files) = 2

\* C9 as stated: once the final totals are logged the process ends with exit
\* code 0, and an error that reaches the handler of main ends it with code 1.
C9_ProcessTerminates ==
    /\ totalsLogged ~> (exited /\ exitCode = NormalExitCode)
    /\ [](fatalErrors >= 1 => exited /\ exitCode = FatalExitCode)

\* A request is sent in this step.
MainRequests == {"getRun", "rerun", "getAttempt", "poll", "getFinished"}

RetrieverRequests == {"getAttempt", "listArtifacts", "getDownloadUrl", "fetch"}

RequestIssued ==
    \/ pc' # pc /\ pc' \in MainRequests
    \/ rpc' # rpc /\ rpc' \in RetrieverRequests

\* C10: once an error has been raised (by a request, by the file system or by
\* a throw), the final totals are not logged, no request is sent and no rerun
\* triggered; the process has ended with exit code 1, or the error was
\* raised in the retriever and main, still waiting for it, ends the process
\* with exit code 1 when it resumes.
C10_Step ==
    /\ errors' >= 1 =>
          /\ ~totalsLogged'
          /\ \/ exited' /\ exitCode' = FatalExitCode
             \/ ~exited' /\ pc' = "download" /\ rpc' = "raised"
    /\ errors >= 1 =>
          /\ ~RequestIssued
          /\ UNCHANGED <<reruns, errors, totalsLogged, tallies>>

\* C10: every raised error ends the process with exit code 1, with no rerun,
\* no request and no totals line after it.
C10_FatalErrorsAbort ==
    /\ [][C10_Step]_vars
    /\ (errors >= 1) ~> (exited /\ exitCode = FatalExitCode)

\* The retrieval of the second iteration raised with an artifact left: the
\* process has ended with code 1 and the totals are not logged.
C10_Witness ==
    /\ exited
    /\ exitCode = FatalExitCode
    /\ fatalErrors = 1
    /\ NUMBER_OF_ATTEMPTS = 2
    /\ reruns = 2
    /\ tallies = 1
    /\ finishedAttempt.conclusion = "failure"
    /\ rArtifacts # <<>>
    /\ ~totalsLogged

\* The positions of main at which it waits for a per-attempt lookup.
AttemptLookups == {"getAttempt", "poll", "getFinished"}

\* C11: getRun always returns to main, with the run or with undefined; when it
\* returns undefined main throws: the process ends with code 1 in that step,
\* with no rerun triggered, no attempt fetched and the loop not entered, and
\* nothing follows; main is inside the loop only with the run found.  An error
\* of a per-attempt lookup is not swallowed: in main it ends the process in
\* that step, in the retriever it rejects the retriever, and no lookup of an
\* attempt that does not exist returns.
C11_Step ==
    /\ Leaves("getRun") => initialRun' \in {"absent", "found"}
    /\ (Leaves("getRun") /\ initialRun' = "absent") =>
          /\ pc' = "rejected"
          /\ exited'
          /\ exitCode' = FatalExitCode
          /\ errors' = errors + 1
          /\ fatalErrors' = fatalErrors + 1
          /\ reruns' = 0
          /\ iteration' = 0
          /\ attemptNumber' = 0
          /\ attempt' = NoAttempt
          /\ rpc' = "idle"
    /\ initialRun = "absent" =>
          UNCHANGED <<pc, reruns, iteration, attemptNumber, attempt, finishedAttempt, rpc>>
    /\ pc' \in InLoopBody => initialRun' = "found"
    /\ (pc \in AttemptLookups /\ pc' # pc /\ attemptNumber \notin 1..Len(attempts)) =>
          errors' = errors + 1
    /\ (pc \in AttemptLookups /\ errors' # errors) =>
          /\ pc' = "rejected"
          /\ exited'
          /\ exitCode' = FatalExitCode
          /\ UNCHANGED <<attempt, finishedAttempt>>
    /\ (rpc = "getAttempt" /\ errors' # errors) => rpc' = "raised"
    /\ attempt'.status = "none" => attempt' = attempt
    /\ finishedAttempt'.status = "none" => finishedAttempt' = finishedAttempt

\* C11: a failed run lookup is swallowed by getRun and turned by main into a
\* fatal error before any rerun and any attempt fetch; a failed per-attempt
\* lookup is raised.
C11_RunLookupSwallowed == [][C11_Step]_vars

C11_Witness ==
    /\ initialRun = "absent"
    /\ pc = "rejected"
    /\ exited
    /\ exitCode = FatalExitCode
    /\ reruns = 0
    /\ attemptNumber = 0

\* C12 as stated: when the token is absent the process has raised with no
\* request sent, no prompt shown, no rerun triggered, nothing written to the
\* file system and no resource opened.
C12_TokenAbsentNoSideEffects ==
    pc = "thrown" =>
       /\ exited
       /\ exitCode = FatalExitCode
       /\ errors = 1
       /\ reruns = 0
       /\ initialRun = "unset"
       /\ attemptNumber = 0
       /\ rpc = "idle"
       /\ answer = <<>>
       /\ dirs = {}
       /\ files = {}
       /\ ~rlOpen

\* C13: when the remote lists no artifact the retriever returns in that step
\* with the file system and the error count as they were, and main, resuming,
\* adds 1 to the failure counter, ends the iteration and goes on with the loop
\* (the next rerun, or the totals after the last iteration) without an error.
\* A download URL is requested only for an artifact that was listed, a
\* directory is made only after such a request and a file written only after
\* that, so none of these happens for an empty listing; and the retriever is
\* rejected after the listing only by an error of the request.
C13_Step ==
    /\ (rpc = "listArtifacts" /\ rpc' = "returned") =>
          /\ rArtifacts' = <<>>
          /\ UNCHANGED <<dirs, files, errors, fatalErrors, pc, failures, iteration>>
    /\ (rpc = "listArtifacts" /\ rpc' = "raised") => errors' = errors + 1
    /\ (rpc = "listArtifacts" /\ rpc' \notin {"listArtifacts", "returned", "raised"}) =>
          /\ rpc' = "getDownloadUrl"
          /\ rArtifacts' # <<>>
    /\ rpc' = "getDownloadUrl" => rArtifacts' # <<>>
    /\ (rpc' = "getDownloadUrl" /\ rpc # "getDownloadUrl") => rpc \in {"listArtifacts", "pipeline"}
    /\ dirs' # dirs => rpc = "mkdir"
    /\ files' # files => rpc = "pipeline"
    /\ (rpc' = "mkdir" /\ rpc # "mkdir") => rpc = "getDownloadUrl"
    /\ (rpc' = "pipeline" /\ rpc # "pipeline") => rpc = "fetch"
    /\ (pc = "download" /\ rpc = "returned" /\ pc' # pc) =>
          /\ failures' = failures + 1
          /\ successes' = successes
          /\ iteration' = iteration + 1
          /\ tallies' = tallies + 1
          /\ UNCHANGED <<errors, fatalErrors, dirs, files>>
          /\ IF iteration' <= NUMBER_OF_ATTEMPTS
             THEN pc' = "rerun" /\ reruns' = reruns + 1 /\ ~exited'
             ELSE pc' = "returned" /\ totalsLogged'

\* C13: an empty artifact listing makes the retrieval a no-op (no download
\* URL request, no directory, no file, no error), and the iteration is counted
\* as a failure and the loop continues.
C13_ZeroArtifactsNoOp == [][C13_Step]_vars

\* The first iteration failed, its retrieval listed nothing, and main has
\* triggered the rerun of the second iteration.
C13_Witness ==
    /\ pc = "rerun"
    /\ iteration = 2
    /\ failures = 1
    /\ finishedAttempt.conclusion = "failure"
    /\ rAttemptNumber = initialAttemptCount + 1
    /\ dirs = {}
    /\ files = {}
    /\ errors = 0

\* What a resolver does with the environment variable it has read: with a
\* value it returns value (no prompt), without one it asks and returns nothing yet.
FromEnvironment(get, ask, next, old, new, value) ==
    (pc = get /\ pc' # pc) =>
       IF envValue' # <<>>
       THEN pc' = next /\ new = value
       ELSE pc' = ask /\ new = old

\* What a resolver of a required value does with an answer: an empty answer
\* leaves it at the same prompt, and it returns only with a non-empty answer.
FromRequiredAnswer(ask, next, old, new) ==
    /\ (pc = ask /\ pc' = pc /\ answer' # answer) => answer' = <<>> /\ new = old
    /\ (pc = ask /\ pc' # pc) => pc' = next

\* C14: each resolver returns the value of its environment variable when that
\* is set, and asks only when it is not; the resolvers of the run id, the
\* repository name and the repository owner ask again after an empty answer
\* and return the first non-empty one; the resolvers of the poll frequency
\* and of the attempt count return 10000 and 100 for an empty answer; the poll
\* frequency is the environment variable's number as it is, and 1000 times
\* the number answered, which is in seconds.
C14_Step ==
    /\ FromEnvironment("getRunId", "askRunId", "getPollFrequency",
                       RUN_ID, RUN_ID', ParseInt(envValue'))
    /\ FromEnvironment("getPollFrequency", "askPollFrequency", "getNumberOfAttempts",
                       POLL_FREQUENCY_MS, POLL_FREQUENCY_MS', ParseInt(envValue'))
    /\ FromEnvironment("getNumberOfAttempts", "askNumberOfAttempts", "getRepo",
                       NUMBER_OF_ATTEMPTS, NUMBER_OF_ATTEMPTS', ParseInt(envValue'))
    /\ FromEnvironment("getRepo", "askRepo", "getRepoOwner",
                       REPO_NAME, REPO_NAME', envValue')
    /\ FromEnvironment("getRepoOwner", "askRepoOwner", "getRun",
                       REPO_OWNER, REPO_OWNER', envValue')
    /\ (pc' \in Prompts /\ pc' # pc) => envValue' = <<>>
    /\ FromRequiredAnswer("askRunId", "getPollFrequency", RUN_ID, RUN_ID')
    /\ (pc = "askRunId" /\ pc' # pc) => answer' # <<>> /\ RUN_ID' = ParseInt(answer')
    /\ FromRequiredAnswer("askRepo", "getRepoOwner", REPO_NAME, REPO_NAME')
    /\ (pc = "askRepo" /\ pc' # pc) => answer' # <<>> /\ REPO_NAME' = answer'
    /\ FromRequiredAnswer("askRepoOwner", "getRun", REPO_OWNER, REPO_OWNER')
    /\ (pc = "askRepoOwner" /\ pc' # pc) =>
          REPO_OWNER' # <<>> /\ REPO_OWNER' \in RepoOwnerAnswers
    /\ (pc = "askPollFrequency" /\ pc' # pc) =>
          /\ pc' = "getNumberOfAttempts"
          /\ POLL_FREQUENCY_MS' =
                IF answer' = <<>> THEN 10000
                ELSE IF ParseInt(answer') = NaN THEN NaN
                ELSE ParseInt(answer') * 1000
    /\ (pc = "askNumberOfAttempts" /\ pc' # pc) =>
          /\ pc' = "getRepo"
          /\ NUMBER_OF_ATTEMPTS' = IF answer' = <<>> THEN 100 ELSE ParseInt(answer')
    /\ pc \notin {"getRunId", "askRunId"} => RUN_ID' = RUN_ID
    /\ pc \notin {"getPollFrequency", "askPollFrequency"} =>
          POLL_FREQUENCY_MS' = POLL_FREQUENCY_MS
    /\ pc \notin {"getNumberOfAttempts", "askNumberOfAttempts"} =>
          NUMBER_OF_ATTEMPTS' = NUMBER_OF_ATTEMPTS
    /\ pc \notin {"getRepo", "askRepo"} => REPO_NAME' = REPO_NAME
    /\ pc \notin {"getRepoOwner", "askRepoOwner"} => REPO_OWNER' = REPO_OWNER

Concluded(c) ==
    {i \in 1..NUMBER_OF_ATTEMPTS : attempts[initialAttemptCount + i].conclusion = c}

\* C15: once main has logged the final totals, successes is the number of
\* iterations whose attempt the remote concluded with success and failures the
\* number of those it concluded with failure, whatever the conclusions were;
\* and the retriever is started only for an attempt concluded with failure.
C15_CountersMatchConclusions ==
    /\ [](totalsLogged =>
            /\ Len(attempts) >= initialAttemptCount + NUMBER_OF_ATTEMPTS
            /\ successes = Cardinality(Concluded("success"))
            /\ failures = Cardinality(Concluded("failure")))
    /\ [][(rpc' = "getAttempt" /\ rpc # "getAttempt") =>
             /\ rAttemptNumber' = initialAttemptCount + iteration
             /\ attempts[rAttemptNumber'].conclusion = "failure"]_vars

\* The scenario of the specification: initial attempt count 1, two attempts
\* configured, attempt 2 concluded success and attempt 3 failure; the totals
\* are 1 and 1 and the retriever ran for attempt 3 only.
C15_Witness ==
    /\ totalsLogged
    /\ RUN_ID = 42
    /\ initialAttemptCount = 1
    /\ NUMBER_OF_ATTEMPTS = 2
    /\ attempts[2].conclusion = "success"
    /\ attempts[3].conclusion = "failure"
    /\ successes = 1
    /\ failures = 1
    /\ rAttemptNumber = 3
    /\ dirs = {3}

\* Main comes to position p in this step.
Enters(p) == pc' = p /\ pc # p

\* C16: main comes to each position of an iteration only from the one before
\* it: to the rerun request from the loop test, to the grace wait from the
\* answer to the rerun request, to the first fetch from the grace wait, to
\* polling from the first fetch, to the fetch of the finished attempt from a
\* poll, to the classification from that fetch.  The grace wait is 10000 ms
\* whatever the poll frequency is.  The attempt number main asks for changes
\* only when the grace wait is over, and while main fetches, polls or
\* classifies, the rerun of that iteration has been requested.
C16_Step ==
    /\ Enters("rerun") =>
          /\ pc \in {"getRun", "classify", "download"}
          /\ reruns' = reruns + 1
          /\ reruns' = iteration'
    /\ Enters("grace") =>
          /\ pc = "rerun"
          /\ sleptMs' = 10000
          /\ UNCHANGED <<reruns, iteration, attemptNumber>>
    /\ Enters("getAttempt") =>
          /\ pc = "grace"
          /\ sleptMs = 10000
          /\ attemptNumber' = initialAttemptCount + iteration
    /\ Enters("poll") => pc \in {"getAttempt", "pollSleep"}
    /\ Enters("pollSleep") => pc = "poll"
    /\ Enters("getFinished") => pc = "poll"
    /\ Enters("classify") => pc = "getFinished"
    /\ Enters("download") => pc = "classify"
    /\ attemptNumber' # attemptNumber => pc = "grace"
    /\ pc' \in UsesExpectedAttempt =>
          /\ reruns' = iteration'
          /\ attemptNumber' = initialAttemptCount' + iteration'
    /\ pc' \in {"rerun", "grace"} =>
          /\ reruns' = iteration'
          /\ attemptNumber' < initialAttemptCount' + iteration'

\* C16: in every iteration the rerun request, the fixed wait of 10 seconds,
\* the first fetch, the polling and the classification follow one another in
\* this order, and the expected attempt is not fetched before the wait is over.
C16_StepOrder == [][C16_Step]_vars

\* The second iteration, with a poll frequency of 5 seconds: the grace wait of
\* 10 seconds is over and main fetches the expected attempt for the first time.
C16_Witness ==
    /\ pc = "getAttempt"
    /\ iteration = 2
    /\ POLL_FREQUENCY_MS = 5000
    /\ sleptMs = 10000
    /\ reruns = 2
    /\ attemptNumber = initialAttemptCount + 2

\* The iterations main has begun: iteration is the index of the one it is in,
\* and one more than the last once it has left the loop.
IterationsBegun == IF pc = "returned" THEN iteration - 1 ELSE iteration

\* C17: the number of rerun requests issued is the number of iterations begun,
\* is at most NUMBER_OF_ATTEMPTS (0 when that is 0 or not a number) and at
\* least successes + failures; it changes only by growing by 1 in the step in
\* which main begins an iteration, and never after an error has been raised.
C17_Step ==
    /\ reruns' = IterationsBegun'
    /\ NUMBER_OF_ATTEMPTS' >= 0 => reruns' <= NUMBER_OF_ATTEMPTS'
    /\ NUMBER_OF_ATTEMPTS' \in {0, NaN} => reruns' = 0
    /\ reruns' >= successes' + failures'
    /\ reruns' # reruns =>
          /\ reruns' = reruns + 1
          /\ pc' = "rerun"
          /\ pc \in {"getRun", "classify", "download"}
          /\ iteration' = IF pc = "getRun" THEN 1 ELSE iteration + 1
          /\ errors = 0
          /\ errors' = 0
    /\ (pc' = "rerun" /\ pc # "rerun") => reruns' = reruns + 1
    /\ (iteration' # iteration /\ pc' \in InLoopBody) => reruns' = reruns + 1
    /\ (errors >= 1 \/ exited) => reruns' = reruns

\* C17: one rerun per iteration begun and no other: reruns = iterations begun
\* <= N, reruns >= successes + failures, and none with N = 0 or after a fatal
\* error.
C17_OneRerunPerIteration == [][C17_Step]_vars

\* Two iterations, the second ended by an error of the poll: two reruns, one
\* attempt counted.
C17_Witness ==
    /\ pc = "rejected"
    /\ NUMBER_OF_ATTEMPTS = 2
    /\ iteration = 2
    /\ reruns = 2
    /\ successes + failures = 1
    /\ attempt.status = "in_progress"
    /\ errors = 1

\* C18: main comes to the fetch of the finished attempt only from a poll that
\* returned status completed, and what it classifies is the data that this
\* later fetch returned, the remote's data at that time, not the data of the
\* poll: successes, the retriever and the anomaly line go by its conclusion.
\* As long as the remote has taken no completed attempt back, that data is the
\* data the poll returned and its status is completed.
C18_Step ==
    /\ Enters("getFinished") =>
          /\ pc = "poll"
          /\ attempt'.status = "completed"
          /\ finishedAttempt' = finishedAttempt
    /\ finishedAttempt' # finishedAttempt =>
          /\ pc = "getFinished"
          /\ pc' = "classify"
    /\ Enters("classify") =>
          /\ pc = "getFinished"
          /\ finishedAttempt' = attempts[attemptNumber]
          /\ attempt' = attempt
          /\ attempt.status = "completed"
    /\ (pc' = "classify" /\ ~Reverted') =>
          /\ finishedAttempt'.status = "completed"
          /\ finishedAttempt' = attempt'
    /\ Leaves("classify") =>
          /\ successes' # successes <=> finishedAttempt.conclusion = "success"
          /\ pc' = "download" <=> finishedAttempt.conclusion = "failure"
          /\ anomalies' # anomalies <=> finishedAttempt.conclusion \notin {"success", "failure"}

\* C18: the attempt classified is the one a separate fetch returned after
\* polling; it has status completed provided the remote takes no completed
\* attempt back.
C18_ClassifiesSeparateFetch == [][C18_Step]_vars

\* The poll returned the attempt completed with conclusion success; the remote
\* took it back; main has classified the attempt, not completed and with no
\* conclusion, as an anomaly.
C18_Witness ==
    /\ Reverted
    /\ attempt.status = "completed"
    /\ attempt.conclusion = "success"
    /\ finishedAttempt.status = "waiting"
    /\ finishedAttempt.conclusion = "null"
    /\ anomalies = 1
    /\ successes = 0
    /\ iteration = 2

\* The same with the stale conclusion left in the data: the attempt, not
\* completed, is counted as a failure.
C18_WitnessStale ==
    /\ Reverted
    /\ attempt.status = "completed"
    /\ finishedAttempt.status = "waiting"
    /\ finishedAttempt.conclusion = "failure"
    /\ failures = 1

\* The positions of main at which it has the expected attempt: the first fetch
\* returned it.
HasExpectedAttempt == {"poll", "pollSleep", "getFinished", "classify", "download"}

\* The attempts up to number n that reruns of main created.
SelfAttempts(n) == {m \in 1..n : attempts[m].actor = "self"}

\* The attempt main asks for is the one that the rerun of this iteration created.
OwnAttempt ==
    /\ attemptNumber \in 1..Len(attempts)
    /\ attempts[attemptNumber].actor = "self"
    /\ Cardinality(SelfAttempts(attemptNumber)) = iteration

\* The attempts that reruns of others created since main looked the run up,
\* up to number n.
OthersSince(n) == {m \in (initialAttemptCount + 1)..n : attempts[m].actor = "other"}

\* C19 as stated: while main polls and classifies in an iteration, the
\* attempt it asks for is the one the rerun of that iteration created, and the
\* latest of the run, if nobody else has rerun the run since main looked it
\* up, and is not that one if somebody has.
C19_Original ==
    pc \in HasExpectedAttempt =>
       /\ OthersSince(Len(attempts)) = {} =>
             OwnAttempt /\ attemptNumber = Len(attempts)
       /\ OthersSince(Len(attempts)) # {} => ~OwnAttempt

\* C19 amended: while main polls and classifies in an iteration, the attempt
\* it asks for is the one the rerun of that iteration created, and the latest
\* of the run, if nobody else has rerun the run since main looked it up; it is
\* not that one if a rerun of somebody else has created an attempt since then
\* that comes before the one the rerun of this iteration created (its number
\* is at most initialAttemptCount + iteration); and it is that one, though no
\* longer the latest, if others have rerun the run only after that.
C19_OwnAttemptUnlessOthersBefore ==
    pc \in HasExpectedAttempt =>
       /\ OthersSince(Len(attempts)) = {} =>
             OwnAttempt /\ attemptNumber = Len(attempts)
       /\ OthersSince(attemptNumber) # {} => ~OwnAttempt
       /\ OthersSince(attemptNumber) = {} => OwnAttempt

\* Somebody else reran the run before the first rerun of main: in its second
\* iteration main classifies the attempt that its first rerun created.
C19_Witness ==
    /\ pc = "classify"
    /\ iteration = 2
    /\ attempts[initialAttemptCount + 1].actor = "other"
    /\ attemptNumber = initialAttemptCount + 2
    /\ attempts[attemptNumber].actor = "self"
    /\ Len(attempts) = initialAttemptCount + 3
    /\ ~OwnAttempt

\* The latest attempt of the run has completed.
LatestCompleted == attempts[Len(attempts)].status = "completed"

\* What C20 assumes of the remote: no request raises an error, the expected
\* attempt is registered when main fetches it for the first time, and an
\* attempt that has not completed completes later (in this specification a
\* completed attempt stays completed).
C20_RemoteWellBehaved ==
    /\ [](errors = 0)
    /\ [](pc = "getAttempt" => attemptNumber \in 1..Len(attempts))
    /\ (~LatestCompleted) ~> LatestCompleted

\* C20: timers firing and requests settling, and the remote behaving as
\* assumed, main, once its configuration is read, goes through all
\* NUMBER_OF_ATTEMPTS iterations and logs the final totals.  (The model
\* follows at most MaxIterations iterations.)
C20_EventuallyTotals ==
    C20_RemoteWellBehaved =>
       ((pc = "getRun" /\ NUMBER_OF_ATTEMPTS <= MaxIterations)
           ~> (totalsLogged /\ (NUMBER_OF_ATTEMPTS >= 0 => tallies = NUMBER_OF_ATTEMPTS)))

\* Two iterations, both attempts polled while they were running, no error:
\* the totals are logged.
C20_Witness ==
    /\ totalsLogged
    /\ NUMBER_OF_ATTEMPTS = 2
    /\ tallies = 2
    /\ errors = 0
    /\ attempt.status = "completed"
    /\ sleptMs = POLL_FREQUENCY_MS
    /\ POLL_FREQUENCY_MS = 5000

====
